---- MODULE Spec2Model ----
(***************************************************************************)
(* State-machine model of ReplayVis (src/src/main.rs): the role mapping    *)
(* computed by prepare, the actor registry (player_actors, car_actors,     *)
(* ball), the colour counters and the frame cursor, driven by update and   *)
(* move_frame.  The replay's frames are inputs: every call of update reads *)
(* one frame, drawn here from the bounded set Frames.                      *)
(***************************************************************************)
EXTENDS Integers, Sequences, FiniteSets, TLC

VARIABLES
    objects,                      \* replay.objects, the name table
    total_frames,                 \* replay.network_frames.frames.len()
    frame_index,
    player_actors,                \* HashMap<ActorId, PlayerDetails>
    car_actors,                   \* HashMap<ActorId, Option<RigidBody>>
    ball,                         \* Option<RigidBody>
    blue_team_count,
    orange_team_count,
    ball_actor_id,
    orange_team_actor_id,
    blue_team_actor_id,
    ball_actor_object_id,
    blue_team_actor_object_id,
    orange_team_actor_object_id,
    player_car_object_id,
    player_name_object_id,
    player_id_object_id,
    player_team_object_id,
    car_object_id,
    player_object_id,
    rigid_body_moved_object_id,
    panicked,                     \* TRUE once a step has aborted (Rust panic)
    seek_left,                    \* update calls still to run in move_frame's loop
    created,                      \* history: actor ids seen in any create list
    steps,                        \* history: update calls since construction (saturating)
    prepare_runs,                 \* history: calls of prepare on this name table
    trip                          \* history: a forward seek from index 0 and the seek after it

ids == <<ball_actor_object_id, blue_team_actor_object_id, orange_team_actor_object_id,
         player_car_object_id, player_name_object_id, player_id_object_id,
         player_team_object_id, car_object_id, player_object_id,
         rigid_body_moved_object_id>>

registry == <<player_actors, car_actors, ball>>

vars == <<objects, total_frames, frame_index, player_actors, car_actors, ball,
          blue_team_count, orange_team_count, ball_actor_id, orange_team_actor_id,
          blue_team_actor_id, ids, panicked, seek_left, created, steps, prepare_runs,
          trip>>

-----------------------------------------------------------------------------
(* Option<T>: None is the empty sequence, Some(x) the one-element sequence. *)

None == <<>>

Some(x) == <<x>>

is_some(o) == o # None

unwrap(o) == o[1]

(* HashMap::remove and HashMap::insert on a function with a finite domain. *)
remove(m, k) == [x \in (DOMAIN m) \ {k} |-> m[x]]

insert(m, k, v) == [x \in (DOMAIN m) \cup {k} |-> IF x = k THEN v ELSE m[x]]

EmptyMap == [x \in {} |-> None]

(* usize: a value that wrapped below zero is kept as the negative number d   *)
(* standing for 2^64 + d.                                                   *)
unsigned_abs(n) == IF n < 0 THEN 0 - n ELSE n

\* `a < b` on usize, b < 2^63, a possibly wrapped
usize_lt(a, b) == a >= 0 /\ a < b

\* `a >= b` on usize, b < 2^63, a possibly wrapped
usize_ge(a, b) == a < 0 \/ a >= b

-----------------------------------------------------------------------------
(* Colours: [f32; 4] with every component a multiple of 1/256, kept as the *)
(* numerators over 256 (1.0 is 256, 0.5 is 128).                           *)

PURPLE == <<128, 0, 128, 256>>

ORANGE == << <<245, 146, 0, 256>>,
             <<224, 81, 0, 256>>,
             <<250, 40, 13, 256>>,
             <<256, 0, 0, 256>> >>

BLUE == << <<0, 45, 245, 256>>,
           <<68, 11, 222, 256>>,
           <<0, 141, 224, 256>>,
           <<0, 0, 256, 256>> >>

\* Spec: the replay has 1 .. MaxFrames frames
MaxFrames == 1

\* SpecCursor: the replay has ShortReplay or LongReplay frames, and seeks move by SeekBy
ShortReplay == 3

LongReplay == 12

SeekBy == 10

\* a wrapped frame index is followed down to 2^64 - MaxBelow
MaxBelow == 20

\* SpecPrepare: the name table has at most MaxNames names, and prepare is
\* called on it MaxRuns times
MaxNames == 2

MaxRuns == 2

-----------------------------------------------------------------------------
(* prepare: one pass over the name table; ObjectId(index) is 0-based.       *)

NoRoles == [ball_actor_object_id |-> None,
            blue_team_actor_object_id |-> None,
            orange_team_actor_object_id |-> None,
            player_car_object_id |-> None,
            player_name_object_id |-> None,
            player_id_object_id |-> None,
            player_team_object_id |-> None,
            car_object_id |-> None,
            player_object_id |-> None,
            rigid_body_moved_object_id |-> None]

prepare_name(r, index, object_name) ==
    LET id == Some(index) IN
    CASE object_name = "Archetypes.Ball.Ball_Default" ->
            [r EXCEPT !.ball_actor_object_id = id]
      [] object_name = "Archetypes.Teams.Team0" ->
            [r EXCEPT !.orange_team_actor_object_id = id]
      [] object_name = "Archetypes.Teams.Team1" ->
            [r EXCEPT !.blue_team_actor_object_id = id]
      [] object_name = "Engine.Pawn:PlayerReplicationInfo" ->
            [r EXCEPT !.player_car_object_id = id]
      [] object_name = "Engine.PlayerReplicationInfo:Team" ->
            [r EXCEPT !.player_team_object_id = id]
      [] object_name = "Engine.PlayerReplicationInfo:PlayerName" ->
            [r EXCEPT !.player_name_object_id = id]
      [] object_name = "Engine.PlayerReplicationInfo:PlayerID" ->
            [r EXCEPT !.player_id_object_id = id]
      [] object_name = "Archetypes.Car.Car_Default" ->
            [r EXCEPT !.car_object_id = id]
      [] object_name = "TAGame.Default__PRI_TA" ->
            [r EXCEPT !.player_object_id = id]
      [] object_name = "TAGame.RBActor_TA:ReplicatedRBState" ->
            [r EXCEPT !.rigid_body_moved_object_id = id]
      [] OTHER -> r

RECURSIVE prepare_from(_, _, _)
prepare_from(r, names, index) ==
    IF index >= Len(names) THEN r
    ELSE prepare_from(prepare_name(r, index, names[index + 1]), names, index + 1)

\* a pass that first forgets every role resolved by an earlier pass
prepare_clearing(r, names) ==
    LET p == prepare_from(r, names, 0) IN
    [k \in DOMAIN p |-> IF is_some(r[k]) THEN None ELSE p[k]]

prepare(r, names) == prepare_from(r, names, 0)

-----------------------------------------------------------------------------
(* update, as a function of the mutable fields (a record) and one frame.    *)

State == [frame_index |-> frame_index,
          player_actors |-> player_actors,
          car_actors |-> car_actors,
          ball |-> ball,
          blue_team_count |-> blue_team_count,
          orange_team_count |-> orange_team_count,
          ball_actor_id |-> ball_actor_id,
          orange_team_actor_id |-> orange_team_actor_id,
          blue_team_actor_id |-> blue_team_actor_id,
          panicked |-> panicked]

\* `if let Some(x) = role && object_id == x`
matches(role, object_id) == is_some(role) /\ object_id = unwrap(role)

PlayerDetails == [name |-> "Unknown", color |-> PURPLE, car_actor_id |-> None, team |-> "Blue"]

\* new_actor with the ball's identifier also recorded when a car is created
new_actor_ball_on_car(s, actor) ==
    LET s1 == IF matches(ball_actor_object_id, actor.object_id)
                 \/ matches(car_object_id, actor.object_id)
              THEN [s EXCEPT !.ball_actor_id = Some(actor.actor_id)] ELSE s
        s2 == IF matches(car_object_id, actor.object_id)
              THEN [s1 EXCEPT !.car_actors = insert(s1.car_actors, actor.actor_id, None)] ELSE s1
        s3 == IF matches(blue_team_actor_object_id, actor.object_id)
              THEN [s2 EXCEPT !.blue_team_actor_id = Some(actor.actor_id)] ELSE s2
        s4 == IF matches(orange_team_actor_object_id, actor.object_id)
              THEN [s3 EXCEPT !.orange_team_actor_id = Some(actor.actor_id)] ELSE s3
    IN  IF matches(player_object_id, actor.object_id)
           /\ actor.actor_id \notin DOMAIN s4.player_actors
        THEN [s4 EXCEPT !.player_actors = insert(s4.player_actors, actor.actor_id, PlayerDetails)]
        ELSE s4

\* one iteration of `for actor in &frame.new_actors`
new_actor(s, actor) ==
    LET s1 == IF matches(ball_actor_object_id, actor.object_id)
              THEN [s EXCEPT !.ball_actor_id = Some(actor.actor_id)] ELSE s
        s2 == IF matches(car_object_id, actor.object_id)
              THEN [s1 EXCEPT !.car_actors = insert(s1.car_actors, actor.actor_id, None)] ELSE s1
        s3 == IF matches(blue_team_actor_object_id, actor.object_id)
              THEN [s2 EXCEPT !.blue_team_actor_id = Some(actor.actor_id)] ELSE s2
        s4 == IF matches(orange_team_actor_object_id, actor.object_id)
              THEN [s3 EXCEPT !.orange_team_actor_id = Some(actor.actor_id)] ELSE s3
    IN  IF matches(player_object_id, actor.object_id)
           /\ actor.actor_id \notin DOMAIN s4.player_actors
        THEN [s4 EXCEPT !.player_actors = insert(s4.player_actors, actor.actor_id, PlayerDetails)]
        ELSE s4

\* team_update with the `if player.color == PURPLE` tests dropped
team_update_recolor(s, actor) ==
    IF actor.actor_id \notin DOMAIN s.player_actors THEN s
    ELSE LET attribute == actor.attribute IN
         IF attribute.kind = "ActiveActor" /\ is_some(s.orange_team_actor_id)
            /\ attribute.actor = unwrap(s.orange_team_actor_id)
         THEN IF s.orange_team_count >= Len(ORANGE)
              THEN [s EXCEPT !.player_actors[actor.actor_id].team = "Orange",
                             !.panicked = TRUE]
              ELSE [s EXCEPT !.player_actors[actor.actor_id].team = "Orange",
                             !.player_actors[actor.actor_id].color =
                                  ORANGE[s.orange_team_count + 1],
                             !.orange_team_count = s.orange_team_count + 1]
         ELSE IF attribute.kind = "ActiveActor" /\ is_some(s.blue_team_actor_id)
                 /\ attribute.actor = unwrap(s.blue_team_actor_id)
         THEN IF s.blue_team_count >= Len(BLUE)
              THEN [s EXCEPT !.player_actors[actor.actor_id].team = "Blue",
                             !.panicked = TRUE]
              ELSE [s EXCEPT !.player_actors[actor.actor_id].team = "Blue",
                             !.player_actors[actor.actor_id].color =
                                  BLUE[s.blue_team_count + 1],
                             !.blue_team_count = s.blue_team_count + 1]
         ELSE s

\* the arm `object_id if ... == team_id`
team_update(s, actor) ==
    IF actor.actor_id \notin DOMAIN s.player_actors THEN s
    ELSE LET attribute == actor.attribute
             player == s.player_actors[actor.actor_id]
         IN
         IF attribute.kind = "ActiveActor" /\ is_some(s.orange_team_actor_id)
            /\ attribute.actor = unwrap(s.orange_team_actor_id)
         THEN LET s1 == [s EXCEPT !.player_actors[actor.actor_id].team = "Orange"] IN
              IF player.color = PURPLE
              THEN IF s.orange_team_count >= Len(ORANGE)
                   THEN [s1 EXCEPT !.panicked = TRUE]
                   ELSE [s1 EXCEPT !.player_actors[actor.actor_id].color =
                                        ORANGE[s.orange_team_count + 1],
                                   !.orange_team_count = s.orange_team_count + 1]
              ELSE s1
         ELSE IF attribute.kind = "ActiveActor" /\ is_some(s.blue_team_actor_id)
                 /\ attribute.actor = unwrap(s.blue_team_actor_id)
         THEN LET s1 == [s EXCEPT !.player_actors[actor.actor_id].team = "Blue"] IN
              IF player.color = PURPLE
              THEN IF s.blue_team_count >= Len(BLUE)
                   THEN [s1 EXCEPT !.panicked = TRUE]
                   ELSE [s1 EXCEPT !.player_actors[actor.actor_id].color =
                                        BLUE[s.blue_team_count + 1],
                                   !.blue_team_count = s.blue_team_count + 1]
              ELSE s1
         ELSE s

\* name_update that resets the name when the attribute is no string
name_update_resetting(s, actor) ==
    IF actor.actor_id \in DOMAIN s.player_actors
    THEN IF actor.attribute.kind = "String"
         THEN [s EXCEPT !.player_actors[actor.actor_id].name = actor.attribute.value]
         ELSE [s EXCEPT !.player_actors[actor.actor_id].name = "Unknown"]
    ELSE s

\* the arm `object_id if ... == player_name_id`
name_update(s, actor) ==
    IF actor.actor_id \in DOMAIN s.player_actors /\ actor.attribute.kind = "String"
    THEN [s EXCEPT !.player_actors[actor.actor_id].name = actor.attribute.value]
    ELSE s

\* car_update with the roles of the addressed and the referenced actor exchanged
car_update_reversed(s, actor) ==
    IF actor.attribute.kind = "ActiveActor"
       /\ actor.actor_id \in DOMAIN s.player_actors
    THEN [s EXCEPT !.player_actors[actor.actor_id].car_actor_id = Some(actor.attribute.actor)]
    ELSE s

\* car_update that also unlinks every other Player from the addressed car
car_update_exclusive(s, actor) ==
    IF actor.attribute.kind = "ActiveActor"
       /\ actor.attribute.actor \in DOMAIN s.player_actors
    THEN [s EXCEPT !.player_actors =
             [q \in DOMAIN s.player_actors |->
                 IF q = actor.attribute.actor
                 THEN [s.player_actors[q] EXCEPT !.car_actor_id = Some(actor.actor_id)]
                 ELSE IF s.player_actors[q].car_actor_id = Some(actor.actor_id)
                      THEN [s.player_actors[q] EXCEPT !.car_actor_id = None]
                      ELSE s.player_actors[q]]]
    ELSE s

\* the arm `object_id if ... == player_car_id`
car_update(s, actor) ==
    IF actor.attribute.kind = "ActiveActor"
       /\ actor.attribute.actor \in DOMAIN s.player_actors
    THEN [s EXCEPT !.player_actors[actor.attribute.actor].car_actor_id = Some(actor.actor_id)]
    ELSE s

\* the arm `object_id if ... == rigid_body_moved`
rigid_body_update(s, actor) ==
    LET s1 == IF actor.actor_id \in DOMAIN s.car_actors /\ actor.attribute.kind = "RigidBody"
              THEN [s EXCEPT !.car_actors[actor.actor_id] = Some(actor.attribute.value)]
              ELSE s
    IN  IF is_some(s1.ball_actor_id) /\ actor.actor_id = unwrap(s1.ball_actor_id)
           /\ actor.attribute.kind = "RigidBody"
        THEN [s1 EXCEPT !.ball = Some(actor.attribute.value)]
        ELSE s1

\* `match actor.object_id { ... }`: the first arm whose guard holds
dispatch(s, actor) ==
    IF matches(player_team_object_id, actor.object_id) THEN team_update(s, actor)
    ELSE IF matches(player_name_object_id, actor.object_id) THEN name_update(s, actor)
    ELSE IF matches(player_car_object_id, actor.object_id) THEN car_update(s, actor)
    ELSE IF matches(rigid_body_moved_object_id, actor.object_id) THEN rigid_body_update(s, actor)
    ELSE s

\* the two `if let Attribute::DemolishFx / Demolish` after the match
demolish(s, actor) ==
    LET s1 == IF actor.attribute.kind = "DemolishFx"
              THEN [s EXCEPT !.car_actors = remove(s.car_actors, actor.attribute.victim)] ELSE s
    IN  IF actor.attribute.kind = "Demolish"
        THEN [s1 EXCEPT !.car_actors = remove(s1.car_actors, actor.attribute.victim)] ELSE s1

\* one iteration of `for actor in &frame.updated_actors`
updated_actor(s, actor) ==
    LET s1 == dispatch(s, actor) IN
    IF s1.panicked THEN s1 ELSE demolish(s1, actor)

\* deleted_actor without the removal of the deleted Player's car
deleted_actor_no_cascade(s, actor) ==
    [s EXCEPT !.player_actors = remove(s.player_actors, actor),
              !.car_actors = remove(s.car_actors, actor)]

\* deleted_actor that gives a deleted Player's palette entry back to its side
deleted_actor_releasing(s, actor) ==
    LET s1 == IF actor \in DOMAIN s.player_actors
              THEN LET player == s.player_actors[actor]
                       s0 == [s EXCEPT !.player_actors = remove(s.player_actors, actor),
                                       !.orange_team_count =
                                           IF player.color \in {ORANGE[i] : i \in DOMAIN ORANGE}
                                           THEN s.orange_team_count - 1
                                           ELSE s.orange_team_count]
                   IN  IF is_some(player.car_actor_id)
                       THEN [s0 EXCEPT !.car_actors =
                                 remove(s0.car_actors, unwrap(player.car_actor_id))]
                       ELSE s0
              ELSE s
    IN  [s1 EXCEPT !.car_actors = remove(s1.car_actors, actor)]

\* one iteration of `for actor in &frame.deleted_actors`
deleted_actor(s, actor) ==
    LET s1 == IF actor \in DOMAIN s.player_actors
              THEN LET player == s.player_actors[actor]
                       s0 == [s EXCEPT !.player_actors = remove(s.player_actors, actor)]
                   IN  IF is_some(player.car_actor_id)
                       THEN [s0 EXCEPT !.car_actors =
                                 remove(s0.car_actors, unwrap(player.car_actor_id))]
                       ELSE s0
              ELSE s
    IN  [s1 EXCEPT !.car_actors = remove(s1.car_actors, actor)]

RECURSIVE new_actors(_, _)
new_actors(s, list) ==
    IF list = <<>> THEN s ELSE new_actors(new_actor(s, Head(list)), Tail(list))

RECURSIVE updated_actors(_, _)
updated_actors(s, list) ==
    IF list = <<>> \/ s.panicked THEN s
    ELSE updated_actors(updated_actor(s, Head(list)), Tail(list))

RECURSIVE deleted_actors(_, _)
deleted_actors(s, list) ==
    IF list = <<>> THEN s ELSE deleted_actors(deleted_actor(s, Head(list)), Tail(list))

\* update without the reset of an index at or past the end of the frames
update_without_reset(s, frame) ==
    LET s1 == new_actors(s, frame.new_actors)
        s2 == updated_actors(s1, frame.updated_actors)
        s3 == deleted_actors(s2, frame.deleted_actors)
    IN  IF s2.panicked THEN s2
        ELSE [s3 EXCEPT !.frame_index = s3.frame_index + 1]

\* update with the delete list applied before the create and update lists
update_deleting_first(s, frame) ==
    LET s0 == IF usize_ge(s.frame_index, total_frames) THEN [s EXCEPT !.frame_index = 0] ELSE s
        s1 == deleted_actors(s0, frame.deleted_actors)
        s2 == new_actors(s1, frame.new_actors)
        s3 == updated_actors(s2, frame.updated_actors)
    IN  IF s3.panicked THEN s3
        ELSE [s3 EXCEPT !.frame_index = s3.frame_index + 1]

\* fn update: a panic leaves the fields as they were when it struck
update(s, frame) ==
    LET s0 == IF usize_ge(s.frame_index, total_frames) THEN [s EXCEPT !.frame_index = 0] ELSE s
        s1 == new_actors(s0, frame.new_actors)
        s2 == updated_actors(s1, frame.updated_actors)
        s3 == deleted_actors(s2, frame.deleted_actors)
    IN  IF s2.panicked THEN s2
        ELSE [s3 EXCEPT !.frame_index = s3.frame_index + 1]

-----------------------------------------------------------------------------
(* Inputs.                                                                  *)

\* a match with cars and a ball, no team property; a name occurs twice
CarTable == <<"Archetypes.Car.Car_Default",
              "Archetypes.Ball.Ball_Default",
              "Engine.Pawn:PlayerReplicationInfo",
              "TAGame.Default__PRI_TA",
              "TAGame.RBActor_TA:ReplicatedRBState",
              "TAGame.Car_TA:ReplicatedDemolish",
              "Archetypes.Car.Car_Default">>

\* a match with both teams and player names, no cars
TeamTable == <<"TAGame.Car_TA:ReplicatedDemolish",
               "Archetypes.Teams.Team0",
               "Archetypes.Teams.Team1",
               "Engine.PlayerReplicationInfo:Team",
               "Engine.PlayerReplicationInfo:PlayerName",
               "Engine.PlayerReplicationInfo:PlayerID",
               "TAGame.Default__PRI_TA">>

NameTables == {CarTable, TeamTable}

\* a match in which only players come and go
CursorTable == <<"TAGame.Default__PRI_TA", "TAGame.Car_TA:ReplicatedDemolish">>

SeekOffsets == {0 - SeekBy, SeekBy}

NoTrip == [stage |-> "none"]


ActorIds == {1, 2}

StringValues == {"A"}

RigidBodies == {"rb1"}

ObjectIds == 0 .. (Len(objects) - 1)

present(roles) == {unwrap(r) : r \in {x \in roles : is_some(x)}}

ArchetypeIds == present({ball_actor_object_id, car_object_id, blue_team_actor_object_id,
                         orange_team_actor_object_id, player_object_id})

PropertyIds == present({player_team_object_id, player_name_object_id, player_car_object_id,
                        rigid_body_moved_object_id})

\* object ids no role was resolved to
OtherIds == ObjectIds \ (ArchetypeIds \cup PropertyIds \cup present({player_id_object_id}))

Attributes ==
    [kind : {"ActiveActor"}, actor : ActorIds]
    \cup [kind : {"String"}, value : StringValues]
    \cup [kind : {"RigidBody"}, value : RigidBodies]
    \cup [kind : {"Demolish"}, victim : ActorIds]
    \cup [kind : {"DemolishFx"}, victim : ActorIds]
    \cup [kind : {"Boolean"}]

NewActor == [actor_id : ActorIds, object_id : ArchetypeIds \cup OtherIds]

UpdatedActor == [actor_id : ActorIds, object_id : PropertyIds \cup OtherIds,
                 attribute : Attributes]

AtMostOne(S) == {<<>>} \cup {<<x>> : x \in S}

\* a frame carries one event, or the creation and the deletion of actors
Frames ==
    [new_actors : AtMostOne(NewActor), updated_actors : {<<>>},
     deleted_actors : AtMostOne(ActorIds)]
    \cup [new_actors : {<<>>}, updated_actors : AtMostOne(UpdatedActor),
          deleted_actors : {<<>>}]

-----------------------------------------------------------------------------
(* The state machine.                                                       *)

\* ReplayVis::new on a replay with the name table names and frames_len frames
new(names, frames_len) ==
    /\ objects = names
    /\ total_frames = frames_len
    /\ frame_index = 0
    /\ player_actors = EmptyMap
    /\ car_actors = EmptyMap
    /\ ball = None
    /\ blue_team_count = 0
    /\ orange_team_count = 0
    /\ ball_actor_id = None
    /\ orange_team_actor_id = None
    /\ blue_team_actor_id = None
    /\ LET r == prepare(NoRoles, objects) IN
        /\ ball_actor_object_id = r.ball_actor_object_id
        /\ blue_team_actor_object_id = r.blue_team_actor_object_id
        /\ orange_team_actor_object_id = r.orange_team_actor_object_id
        /\ player_car_object_id = r.player_car_object_id
        /\ player_name_object_id = r.player_name_object_id
        /\ player_id_object_id = r.player_id_object_id
        /\ player_team_object_id = r.player_team_object_id
        /\ car_object_id = r.car_object_id
        /\ player_object_id = r.player_object_id
        /\ rigid_body_moved_object_id = r.rigid_body_moved_object_id
    /\ panicked = FALSE
    /\ seek_left = 0
    /\ created = {}
    /\ steps = 0
    /\ prepare_runs = 1
    /\ trip = NoTrip

\* the mutable fields take the values of record s
Become(s) ==
    /\ frame_index' = s.frame_index
    /\ player_actors' = s.player_actors
    /\ car_actors' = s.car_actors
    /\ ball' = s.ball
    /\ blue_team_count' = s.blue_team_count
    /\ orange_team_count' = s.orange_team_count
    /\ ball_actor_id' = s.ball_actor_id
    /\ orange_team_actor_id' = s.orange_team_actor_id
    /\ blue_team_actor_id' = s.blue_team_actor_id
    /\ panicked' = s.panicked

CreatedBy(frame) == {frame.new_actors[i].actor_id : i \in DOMAIN frame.new_actors}

\* one call of update on the frame the cursor reads, with the history it leaves
Step(frame) ==
    /\ Become(update(State, frame))
    /\ created' = created \cup CreatedBy(frame)
    /\ steps' = IF steps > total_frames THEN steps ELSE steps + 1

\* `if let Some(args) = e.update_args() { viz.update(&args) }`
Update ==
    /\ ~panicked
    /\ seek_left = 0
    /\ \E frame \in Frames : Step(frame)
    /\ trip' = NoTrip
    /\ UNCHANGED <<objects, total_frames, ids, seek_left, prepare_runs>>

\* move_frame(frame) with frame > 0: enters `for _ in 0..frame`
MoveFrameForward ==
    /\ ~panicked
    /\ seek_left = 0
    /\ \E frame \in SeekOffsets :
        /\ frame > 0
        /\ seek_left' = frame
        /\ trip' = IF frame_index = 0
                   THEN [stage |-> "forward", by |-> frame, origin |-> registry]
                   ELSE NoTrip
    /\ UNCHANGED <<objects, total_frames, ids, frame_index, player_actors, car_actors, ball,
                   blue_team_count, orange_team_count, ball_actor_id, orange_team_actor_id,
                   blue_team_actor_id, panicked, created, steps, prepare_runs>>

\* one iteration of move_frame's loop: `self.update(&UpdateArgs { dt: 0.0 })`
MoveFrameUpdate ==
    /\ ~panicked
    /\ seek_left > 0
    /\ \E frame \in Frames : Step(frame)
    /\ seek_left' = seek_left - 1
    /\ trip' = IF trip.stage = "forward" /\ seek_left = 1
               THEN [trip EXCEPT !.stage = "there"] ELSE trip
    /\ UNCHANGED <<objects, total_frames, ids, prepare_runs>>

\* move_frame(frame) with frame < 0; a usize that wrapped below zero is kept as
\* the negative number d standing for 2^64 + d
MoveFrameBackward ==
    /\ ~panicked
    /\ seek_left = 0
    /\ \E frame \in SeekOffsets :
        /\ frame < 0
        /\ frame_index - unsigned_abs(frame) >= 0 - MaxBelow
        /\ IF usize_lt(frame_index, unsigned_abs(frame))
           THEN LET back == unsigned_abs(frame) - frame_index IN
                IF back > total_frames
                THEN \/ /\ panicked' = TRUE           \* overflow checks on
                        /\ UNCHANGED frame_index
                     \/ /\ frame_index' = total_frames - back   \* wrapping build
                        /\ UNCHANGED panicked
                ELSE /\ frame_index' = total_frames - back
                     /\ UNCHANGED panicked
           ELSE /\ frame_index' = frame_index - unsigned_abs(frame)
                /\ UNCHANGED panicked
        /\ trip' = IF trip.stage = "there" /\ trip.by = unsigned_abs(frame)
                   THEN [trip EXCEPT !.stage = "back"] ELSE NoTrip
    /\ steps' = total_frames + 1
    /\ UNCHANGED <<objects, total_frames, ids, player_actors, car_actors, ball,
                   blue_team_count, orange_team_count, ball_actor_id, orange_team_actor_id,
                   blue_team_actor_id, seek_left, created, prepare_runs>>

\* the projector on every sequence of frames
Init == \E names \in NameTables, frames_len \in 1 .. MaxFrames : new(names, frames_len)

Next == Update

Spec == Init /\ [][Next]_vars

\* the cursor under seeks, on replays in which only players come and go
InitCursor == \E frames_len \in {ShortReplay, LongReplay} : new(CursorTable, frames_len)

NextCursor ==
    \/ Update
    \/ MoveFrameForward
    \/ MoveFrameUpdate
    \/ MoveFrameBackward

SpecCursor == InitCursor /\ [][NextCursor]_vars

\* the ten names prepare matches, and one it does not
WellKnownNames == {"Archetypes.Ball.Ball_Default",
                   "Archetypes.Teams.Team0",
                   "Archetypes.Teams.Team1",
                   "Engine.Pawn:PlayerReplicationInfo",
                   "Engine.PlayerReplicationInfo:Team",
                   "Engine.PlayerReplicationInfo:PlayerName",
                   "Engine.PlayerReplicationInfo:PlayerID",
                   "Archetypes.Car.Car_Default",
                   "TAGame.Default__PRI_TA",
                   "TAGame.RBActor_TA:ReplicatedRBState"}

PrepareNames == WellKnownNames \cup {"TAGame.Car_TA:ReplicatedDemolish"}

PrepareTables == UNION {[1 .. n -> PrepareNames] : n \in 0 .. MaxNames}

\* the role fields as they stand
Roles == [ball_actor_object_id |-> ball_actor_object_id,
          blue_team_actor_object_id |-> blue_team_actor_object_id,
          orange_team_actor_object_id |-> orange_team_actor_object_id,
          player_car_object_id |-> player_car_object_id,
          player_name_object_id |-> player_name_object_id,
          player_id_object_id |-> player_id_object_id,
          player_team_object_id |-> player_team_object_id,
          car_object_id |-> car_object_id,
          player_object_id |-> player_object_id,
          rigid_body_moved_object_id |-> rigid_body_moved_object_id]

\* the struct literal of ReplayVis::new, before its call of prepare
literal(names) ==
    /\ objects = names
    /\ total_frames = 1
    /\ frame_index = 0
    /\ player_actors = EmptyMap
    /\ car_actors = EmptyMap
    /\ ball = None
    /\ blue_team_count = 0
    /\ orange_team_count = 0
    /\ ball_actor_id = None
    /\ orange_team_actor_id = None
    /\ blue_team_actor_id = None
    /\ ball_actor_object_id = None
    /\ blue_team_actor_object_id = None
    /\ orange_team_actor_object_id = None
    /\ player_car_object_id = None
    /\ player_name_object_id = None
    /\ player_id_object_id = None
    /\ player_team_object_id = None
    /\ car_object_id = None
    /\ player_object_id = None
    /\ rigid_body_moved_object_id = None
    /\ panicked = FALSE
    /\ seek_left = 0
    /\ created = {}
    /\ steps = 0
    /\ prepare_runs = 0
    /\ trip = NoTrip

\* one call of prepare: the role fields take the values the pass leaves
Prepare ==
    /\ prepare_runs < MaxRuns
    /\ LET r == prepare(Roles, objects) IN
        /\ ball_actor_object_id' = r.ball_actor_object_id
        /\ blue_team_actor_object_id' = r.blue_team_actor_object_id
        /\ orange_team_actor_object_id' = r.orange_team_actor_object_id
        /\ player_car_object_id' = r.player_car_object_id
        /\ player_name_object_id' = r.player_name_object_id
        /\ player_id_object_id' = r.player_id_object_id
        /\ player_team_object_id' = r.player_team_object_id
        /\ car_object_id' = r.car_object_id
        /\ player_object_id' = r.player_object_id
        /\ rigid_body_moved_object_id' = r.rigid_body_moved_object_id
    /\ prepare_runs' = prepare_runs + 1
    /\ UNCHANGED <<objects, total_frames, frame_index, player_actors, car_actors, ball,
                   blue_team_count, orange_team_count, ball_actor_id, orange_team_actor_id,
                   blue_team_actor_id, panicked, seek_left, created, steps, trip>>

\* prepare alone, called again and again on every short name table
InitPrepare == \E names \in PrepareTables : literal(names)

NextPrepare == Prepare

SpecPrepare == InitPrepare /\ [][NextPrepare]_vars

-----------------------------------------------------------------------------
(* Properties.                                                              *)

Range(f) == {f[x] : x \in DOMAIN f}

Players == DOMAIN player_actors

Cars == DOMAIN car_actors

\* a frame that only deletes actor d
DeleteFrame(d) == [new_actors |-> <<>>, updated_actors |-> <<>>, deleted_actors |-> <<d>>]

\* a frame that only carries the update u
UpdateFrame(u) == [new_actors |-> <<>>, updated_actors |-> <<u>>, deleted_actors |-> <<>>]

\* C1: every Player's car link is None or the identifier of a Car in the car registry.
C1_CascadeInvariant ==
    \A p \in Players :
        LET link == player_actors[p].car_actor_id IN
        is_some(link) => unwrap(link) \in Cars

\* C2: step-forward never aborts, whatever the frame contains, also when a side's
\* allocation counter already equals the palette size.
C2_NeverAborts == ~panicked

\* C3: starting at frame index 0, after exactly total_frames step-forward calls the
\* frame index is 0 again and the registry is empty.
C3_LoopWraparound ==
    steps = total_frames =>
        /\ frame_index = 0
        /\ player_actors = EmptyMap
        /\ car_actors = EmptyMap
        /\ ball = None

\* C4: from frame index 0, seek(+SeekBy) followed by seek(-SeekBy) leaves the cursor at
\* index 0 with the registry that existed at index 0 before the two seeks.
C4_SeekRoundTrip ==
    (trip.stage = "back" /\ trip.by = SeekBy) =>
        /\ frame_index = 0
        /\ registry = trip.origin

\* C5: once a Player's color differs from the unassigned default, every step that keeps
\* the Player in the registry keeps its color, also a step that moves it to the other side.
C5_ColorStability ==
    [][\A a \in Players \cap DOMAIN player_actors' :
          player_actors[a].color # PURPLE
              => player_actors'[a].color = player_actors[a].color]_vars

\* a Player that carries an ORANGE palette color and has been moved to side Blue
C5_Witness ==
    \E a \in Players :
        /\ player_actors[a].color \in Range(ORANGE)
        /\ player_actors[a].team = "Blue"

\* a frame without creations whose updates and deletes are all addressed to actor x
Addresses(frame, x) ==
    /\ frame.new_actors = <<>>
    /\ \A i \in DOMAIN frame.updated_actors : frame.updated_actors[i].actor_id = x
    /\ \A i \in DOMAIN frame.deleted_actors : frame.deleted_actors[i] = x

\* C6: an update addressed to, or a delete of, an actor identifier x that never appeared
\* in a create list completes and leaves players, cars and ball exactly as before.
C6_Tolerance ==
    \A x \in ActorIds \ created :
        \A frame \in Frames :
            Addresses(frame, x) =>
                LET r == update(State, frame) IN
                /\ ~r.panicked
                /\ r.player_actors = player_actors
                /\ r.car_actors = car_actors
                /\ r.ball = ball

\* C7: no actor identifier is a key of both the player and the car registry, nor the
\* ball's identifier and a Player or Car key.
C7_OneEntityPerId ==
    /\ Players \cap Cars = {}
    /\ is_some(ball_actor_id) => unwrap(ball_actor_id) \notin Players \cup Cars

\* C8: no two distinct Players have the same non-None car link.
C8_OneOwnerPerCar ==
    \A p, q \in Players :
        (p # q /\ is_some(player_actors[p].car_actor_id))
            => player_actors[p].car_actor_id # player_actors[q].car_actor_id

\* C9: a delete of a Player whose car link is Some(c) removes the Player and Car c; a
\* delete of a Car (an actor that is no Player) removes that Car and nothing else, so
\* its owning Player stays.
C9_DeleteCascade ==
    \A d \in ActorIds :
        LET r == update(State, DeleteFrame(d)) IN
        /\ (d \in Players /\ is_some(player_actors[d].car_actor_id)) =>
              /\ d \notin DOMAIN r.player_actors
              /\ unwrap(player_actors[d].car_actor_id) \notin DOMAIN r.car_actors
        /\ (d \in Cars /\ d \notin Players) =>
              /\ DOMAIN r.car_actors = Cars \ {d}
              /\ \A c \in Cars \ {d} : r.car_actors[c] = car_actors[c]
              /\ r.player_actors = player_actors
              /\ r.ball = ball

\* Player p owns Car c, both registered: deleting p removes both, deleting c only c
C9_Witness ==
    \E p \in Players, c \in Cars \ Players :
        /\ player_actors[p].car_actor_id = Some(c)
        /\ LET r == update(State, DeleteFrame(p)) IN
              p \notin DOMAIN r.player_actors /\ c \notin DOMAIN r.car_actors
        /\ LET r == update(State, DeleteFrame(c)) IN
              p \in DOMAIN r.player_actors /\ c \notin DOMAIN r.car_actors

\* C10: after an update carrying a demolish notification (of either kind) with victim v
\* is processed, neither a Car nor a Player keyed by v remains.
C10_DemolishRemovesVictim ==
    \A u \in UpdatedActor :
        u.attribute.kind \in {"Demolish", "DemolishFx"} =>
            LET r == update(State, UpdateFrame(u)) IN
            /\ u.attribute.victim \notin DOMAIN r.car_actors
            /\ u.attribute.victim \notin DOMAIN r.player_actors

\* C11: after a demolish notification whose victim is Car c owned by Player p, p is
\* still in the player registry with car link None and Car c is gone.
C11_DemolishClearsLink ==
    \A u \in UpdatedActor :
        u.attribute.kind \in {"Demolish", "DemolishFx"} =>
            \A p \in Players :
                (/\ player_actors[p].car_actor_id = Some(u.attribute.victim)
                 /\ u.attribute.victim \in Cars) =>
                    LET r == update(State, UpdateFrame(u)) IN
                    /\ p \in DOMAIN r.player_actors
                    /\ r.player_actors[p].car_actor_id = None
                    /\ u.attribute.victim \notin DOMAIN r.car_actors

\* C12 as stated: once recorded, the ball's identifier has the same value in every later
\* state, whatever is created later.
C12_BallIdStable ==
    [][is_some(ball_actor_id) => ball_actor_id' = ball_actor_id]_vars

IsBall(actor) == matches(ball_actor_object_id, actor.object_id)

\* C12 as amended: a step changes the ball's identifier only when its frame creates actors
\* of the ball archetype, and then to the identifier of the last of them; once recorded it
\* is never unset, and the Ball is a single optional transform.
C12_BallIdFollowsCreates ==
    /\ ball = None \/ \E rb \in RigidBodies : ball = Some(rb)
    /\ \A frame \in Frames :
          LET r == update(State, frame)
              balls == SelectSeq(frame.new_actors, IsBall)
          IN  /\ balls = <<>> => r.ball_actor_id = ball_actor_id
              /\ balls # <<>> => r.ball_actor_id = Some(balls[Len(balls)].actor_id)
              /\ is_some(ball_actor_id) => is_some(r.ball_actor_id)

\* a ball identifier is recorded and a frame creating another ball actor replaces it
C12_Witness ==
    /\ is_some(ball_actor_id)
    /\ \E frame \in Frames :
          LET r == update(State, frame) IN
          is_some(r.ball_actor_id) /\ r.ball_actor_id # ball_actor_id

\* an update with the car-ownership property and an actor-reference attribute
CarOwnership(addressed, referenced) ==
    [actor_id |-> addressed, object_id |-> unwrap(player_car_object_id),
     attribute |-> [kind |-> "ActiveActor", actor |-> referenced]]

\* C13 as stated: with Car c created, a car-ownership update addressed to Player p whose
\* actor-reference names c leaves p's car link equal to c.
C13_LinkByPlayerUpdate ==
    is_some(player_car_object_id) =>
        \A p \in Players : \A c \in Cars \ {p} :
            LET r == update(State, UpdateFrame(CarOwnership(p, c))) IN
            r.player_actors[p].car_actor_id = Some(c)

\* C13 as amended: with Car c created, a car-ownership update addressed to c whose
\* actor-reference names Player p leaves p's car link equal to c.
C13_LinkByCarUpdate ==
    is_some(player_car_object_id) =>
        \A p \in Players : \A c \in Cars \ {p} :
            LET r == update(State, UpdateFrame(CarOwnership(c, p))) IN
            r.player_actors[p].car_actor_id = Some(c)

\* a Player not yet linked to a registered Car gets the link from the update
C13_Witness ==
    /\ is_some(player_car_object_id)
    /\ \E p \in Players : \E c \in Cars \ (Players \cup {p}) :
          /\ player_actors[p].car_actor_id = None
          /\ update(State, UpdateFrame(CarOwnership(c, p))).player_actors[p].car_actor_id
                = Some(c)

\* an update with the team property and an actor-reference attribute
TeamAssignment(addressed, referenced) ==
    [actor_id |-> addressed, object_id |-> unwrap(player_team_object_id),
     attribute |-> [kind |-> "ActiveActor", actor |-> referenced]]

\* C14: with actor t recorded as the team-0 instance, a team-assignment update referencing
\* t, addressed to a Player p of unassigned color, completes, puts p on team-0's side and
\* gives p a color of team-0's palette that no other Player of that side holds.
C14_TeamAssignment ==
    (is_some(player_team_object_id) /\ is_some(orange_team_actor_id)) =>
        \A p \in Players :
            player_actors[p].color = PURPLE =>
                LET r == update(State, UpdateFrame(TeamAssignment(p, unwrap(orange_team_actor_id))))
                IN  /\ ~r.panicked
                    /\ r.player_actors[p].team = "Orange"
                    /\ r.player_actors[p].color \in Range(ORANGE)
                    /\ \A q \in Players \ {p} :
                          r.player_actors[q].team = "Orange"
                              => r.player_actors[q].color # r.player_actors[p].color

\* C15: a second call of prepare on the same name table (and any call after
\* it) leaves every role's object id as the first call left it: the roles the
\* table does not name stay None, and a name listed twice keeps its last index.
C15_IdempotentPrepare == [][prepare_runs >= 1 => ids' = ids]_vars

\* prepare has run twice on a table that lists the ball archetype twice and
\* names no car archetype
C15_Witness ==
    /\ prepare_runs = 2
    /\ Len(objects) = 2
    /\ objects[1] = objects[2]
    /\ ball_actor_object_id = Some(1)
    /\ car_object_id = None

\* the update's attribute is a demolish notification naming actor a
Demolishes(u, a) ==
    u.attribute.kind \in {"Demolish", "DemolishFx"} /\ u.attribute.victim = a

\* a frame that only creates the actors of list n
CreateFrame(n) == [new_actors |-> n, updated_actors |-> <<>>, deleted_actors |-> <<>>]

\* an update whose property is recognised and whose attribute the arm rejects
Malformed(u) ==
    \/ /\ matches(player_team_object_id, u.object_id)
       /\ \/ u.attribute.kind # "ActiveActor"
          \/ /\ u.attribute.kind = "ActiveActor"
             /\ Some(u.attribute.actor) \notin {orange_team_actor_id, blue_team_actor_id}
    \/ /\ matches(player_car_object_id, u.object_id)
       /\ u.attribute.kind # "ActiveActor"
    \/ /\ matches(player_name_object_id, u.object_id)
       /\ u.attribute.kind # "String"
    \/ /\ matches(rigid_body_moved_object_id, u.object_id)
       /\ u.attribute.kind # "RigidBody"

\* the updates of actor a in those frames: each recognised property with an
\* attribute its arm accepts, or with a demolish notification naming a
OrderUpdates(a) ==
    {u \in [actor_id : {a}, object_id : PropertyIds, attribute : Attributes] :
        ~Malformed(u) \/ (u.attribute.kind = "Demolish" /\ Demolishes(u, a))}

\* frames with a create, an update and (for some) a delete of one actor a
OrderFrames(a) ==
    {[new_actors |-> <<[actor_id |-> a, object_id |-> o]>>,
      updated_actors |-> <<u>>,
      deleted_actors |-> d] :
        o \in ArchetypeIds, u \in OrderUpdates(a), d \in AtMostOne({a})}

\* C16: one step applies the create list, then the update list, then the delete
\* list, each front to back: a frame that creates, updates and deletes leaves what
\* the three lists leave when folded one after another in that order; an update of an actor
\* created in the same frame takes effect (name, car transform, ball transform); an
\* actor both created and deleted in one frame is no Player and no Car afterwards;
\* and of two ball creations in one list the later one is the recorded ball.
C16_ListOrder ==
    /\ \A a \in ActorIds : \A frame \in OrderFrames(a) :
          \A r \in {update(State, frame)} :
          LET n == frame.new_actors[1]
              u == frame.updated_actors[1]
              staged == deleted_actors(updated_actors(new_actors(State, frame.new_actors),
                                                      frame.updated_actors),
                                       frame.deleted_actors)
          IN  /\ ~r.panicked =>
                    [r EXCEPT !.frame_index = 0] = [staged EXCEPT !.frame_index = 0]
              /\ (~r.panicked /\ frame.deleted_actors # <<>>) =>
                    /\ a \notin DOMAIN r.player_actors
                    /\ a \notin DOMAIN r.car_actors
              /\ (~r.panicked /\ frame.deleted_actors = <<>>) =>
                    /\ (matches(player_object_id, n.object_id)
                          /\ matches(player_name_object_id, u.object_id)
                          /\ u.attribute.kind = "String")
                        => r.player_actors[a].name = u.attribute.value
                    /\ (matches(car_object_id, n.object_id)
                          /\ matches(rigid_body_moved_object_id, u.object_id)
                          /\ u.attribute.kind = "RigidBody")
                        => r.car_actors[a] = Some(u.attribute.value)
                    /\ (matches(ball_actor_object_id, n.object_id)
                          /\ matches(rigid_body_moved_object_id, u.object_id)
                          /\ u.attribute.kind = "RigidBody")
                        => r.ball = Some(u.attribute.value)
    /\ \A a \in ActorIds, b \in ActorIds :
          is_some(ball_actor_object_id) =>
              LET o == unwrap(ball_actor_object_id) IN
              update(State, CreateFrame(<<[actor_id |-> a, object_id |-> o],
                                          [actor_id |-> b, object_id |-> o]>>)).ball_actor_id
                = Some(b)

\* actor a is a registered Player whose Car is registered: a frame that creates a
\* as a car, moves it and deletes it leaves a neither Player nor Car
C16_Witness ==
    \E a \in Players :
        /\ is_some(car_object_id)
        /\ is_some(rigid_body_moved_object_id)
        /\ is_some(player_actors[a].car_actor_id)
        /\ unwrap(player_actors[a].car_actor_id) \in Cars
        /\ LET frame == [new_actors |-> <<[actor_id |-> a, object_id |-> unwrap(car_object_id)]>>,
                         updated_actors |-> <<[actor_id |-> a,
                                               object_id |-> unwrap(rigid_body_moved_object_id),
                                               attribute |-> [kind |-> "RigidBody", value |-> "rb1"]]>>,
                         deleted_actors |-> <<a>>]
                r == update(State, frame)
           IN  a \notin DOMAIN r.player_actors /\ a \notin DOMAIN r.car_actors

\* C17: a backward seek taken at an index i in 0 .. total_frames completes without
\* arithmetic underflow and leaves the index at (i - SeekBy) mod total_frames, a
\* position in 0 .. total_frames - 1, with no update run and the registry as it was.
C17_BackwardSeek ==
    [][(MoveFrameBackward /\ frame_index \in 0 .. total_frames)
          => /\ ~panicked'
             /\ frame_index' = (frame_index - SeekBy) % total_frames
             /\ frame_index' \in 0 .. (total_frames - 1)
             /\ registry' = registry
             /\ seek_left' = 0]_vars

\* C18: an update with the car-ownership property addressed to actor c whose
\* attribute references Player p sets p's car link to Some(c) and changes nothing
\* else: no other Player, no field of p but the link, no Car, not the ball, and not
\* the link of c should c be a Player too; when p is no Player nothing changes.
C18_CarOwnershipUpdate ==
    is_some(player_car_object_id) =>
        \A c \in ActorIds, p \in ActorIds :
            \A r \in {update(State, UpdateFrame(CarOwnership(c, p)))} :
            /\ ~r.panicked
            /\ r.car_actors = car_actors
            /\ r.ball = ball
            /\ r.ball_actor_id = ball_actor_id
            /\ r.player_actors =
                  IF p \in Players
                  THEN [player_actors EXCEPT ![p].car_actor_id = Some(c)]
                  ELSE player_actors

\* two Players, one linked to a Car: an update relinks the other to a second
\* registered Car and leaves the first as it was
C18_Witness ==
    /\ is_some(player_car_object_id)
    /\ \E p \in Players : \E q \in Players \ {p} : \E c \in Cars :
          /\ player_actors[p].car_actor_id # Some(c)
          /\ is_some(player_actors[q].car_actor_id)
          /\ LET r == update(State, UpdateFrame(CarOwnership(c, p))) IN
                /\ r.player_actors[p].car_actor_id = Some(c)
                /\ r.player_actors[q] = player_actors[q]

\* C19: after a delete of the actor recorded as the ball, the ball's transform is
\* None and the recorded ball id is no longer that actor, so a rigid-body update
\* addressed to that actor afterwards leaves the ball as it is.
C19_BallIdentityEnds ==
    (is_some(ball_actor_id) /\ is_some(rigid_body_moved_object_id)) =>
        LET d == unwrap(ball_actor_id)
            r == update(State, DeleteFrame(d))
        IN  /\ r.ball = None
            /\ r.ball_actor_id # Some(d)
            /\ \A v \in RigidBodies :
                  update(r, UpdateFrame([actor_id |-> d,
                                         object_id |-> unwrap(rigid_body_moved_object_id),
                                         attribute |-> [kind |-> "RigidBody", value |-> v]])).ball
                    = r.ball

\* after update r the Player, the Car and the ball of actor a are as they stand now
EntityUnchanged(r, a) ==
    /\ a \in Players => (a \in DOMAIN r.player_actors /\ r.player_actors[a] = player_actors[a])
    /\ a \in Cars => (a \in DOMAIN r.car_actors /\ r.car_actors[a] = car_actors[a])
    /\ ball_actor_id = Some(a) => r.ball = ball

\* C20 as stated: a malformed update completes and leaves the addressed entity's
\* side, color, name, car link and transform and both color counters unchanged.
C20_MalformedNoOp ==
    \A u \in UpdatedActor :
        (~panicked /\ Malformed(u)) =>
            LET r == update(State, UpdateFrame(u)) IN
            /\ ~r.panicked
            /\ r.blue_team_count = blue_team_count
            /\ r.orange_team_count = orange_team_count
            /\ EntityUnchanged(r, u.actor_id)

\* C20: a malformed update completes and leaves both color counters and the
\* addressed Player and ball unchanged; the addressed Car is unchanged too unless
\* the attribute is a demolish notification naming it, and then that Car is removed.
C20_MalformedNoOpButDemolish ==
    \A u \in UpdatedActor :
        (~panicked /\ Malformed(u)) =>
            \A r \in {update(State, UpdateFrame(u))} :
            LET a == u.actor_id
            IN  /\ ~r.panicked
                /\ r.blue_team_count = blue_team_count
                /\ r.orange_team_count = orange_team_count
                /\ IF Demolishes(u, a)
                   THEN /\ a \in Players => (a \in DOMAIN r.player_actors
                                               /\ r.player_actors[a] = player_actors[a])
                        /\ ball_actor_id = Some(a) => r.ball = ball
                        /\ a \notin DOMAIN r.car_actors
                   ELSE EntityUnchanged(r, a)

\* a named Player with a team color, only one team instance recorded: a team
\* update referencing the other actor, and a name update carrying no string, each
\* leave the Player as it was
C20_Witness ==
    /\ is_some(player_team_object_id)
    /\ is_some(player_name_object_id)
    /\ \E a \in Players : \E t \in ActorIds :
          /\ player_actors[a].color # PURPLE
          /\ player_actors[a].name # "Unknown"
          /\ Malformed(TeamAssignment(a, t))
          /\ update(State, UpdateFrame(TeamAssignment(a, t))).player_actors[a]
                = player_actors[a]
          /\ update(State, UpdateFrame([actor_id |-> a,
                                        object_id |-> unwrap(player_name_object_id),
                                        attribute |-> [kind |-> "Boolean"]])).player_actors[a]
                = player_actors[a]

\* C21: on a replay at least as long as the backward seek distance, under every
\* interleaving of step-forward calls and seeks the frame index is in
\* 0 .. total_frames before and after each step, no step aborts, and a step-forward
\* reads the frame at index frame_index mod total_frames (an index equal to
\* total_frames reads frame 0) and leaves the index one past the frame it read, so
\* frames are applied in the order 0, 1, ..., total_frames - 1, 0, 1, ...
C21_IndexInRange ==
    [][total_frames >= SeekBy =>
          /\ frame_index \in 0 .. total_frames
          /\ frame_index' \in 0 .. total_frames
          /\ ~panicked'
          /\ (Update \/ MoveFrameUpdate) =>
                /\ frame_index % total_frames \in 0 .. (total_frames - 1)
                /\ frame_index' = (frame_index % total_frames) + 1]_vars

\* the cursor stands at total_frames after the replay has looped or a backward seek
\* has been taken, with a Player in the registry
C21_Witness ==
    /\ total_frames >= SeekBy
    /\ frame_index = total_frames
    /\ steps = total_frames + 1
    /\ Players # {}

\* no two distinct Players hold the same assigned color (a color other than the
\* unassigned default), and every assigned color is a palette entry below its
\* side's allocation counter
ColorsDistinct ==
    /\ \A p \in Players : \A q \in Players \ {p} :
          player_actors[p].color # PURPLE
              => player_actors[p].color # player_actors[q].color
    /\ \A p \in Players :
          player_actors[p].color # PURPLE =>
              \/ \E i \in 1 .. orange_team_count : player_actors[p].color = ORANGE[i]
              \/ \E i \in 1 .. blue_team_count : player_actors[p].color = BLUE[i]

\* C22: before and after every step no two distinct Players hold the same
\* assigned color, every assigned color is a palette entry its side has already
\* handed out, and no step (delete and loop wraparound included) lowers a side's
\* allocation counter.
C22_DistinctColors ==
    [][/\ ColorsDistinct
       /\ ColorsDistinct'
       /\ orange_team_count' >= orange_team_count
       /\ blue_team_count' >= blue_team_count]_vars

\* two Players hold assigned colors at once, after at least three allocations
C22_Witness ==
    \E p \in Players : \E q \in Players \ {p} :
        /\ player_actors[p].color # PURPLE
        /\ player_actors[q].color # PURPLE
        /\ orange_team_count + blue_team_count >= 3

====
